---- MODULE Spec2Model ----
(***************************************************************************)
(* Model of the donation-tracking backend (src/main.py, src/schemas.py).   *)
(*                                                                         *)
(* The document store is five collections, each a sequence of documents in *)
(* insertion order.  An ObjectId is [coll, n]: the n-th identifier the     *)
(* store assigned in a collection ("local" for ObjectId() made in the      *)
(* handler).  A string that stands for an identifier is [form, oid]:       *)
(* str(ObjectId) renders the canonical lower-case hex form, ObjectId(s)    *)
(* parses any 24-digit hex string, so the "upper" spelling of the same     *)
(* digits is well-formed and parses to the same ObjectId without being     *)
(* the same string.  Timestamps (updated_at, issued_at) are not modelled.  *)
(***************************************************************************)
EXTENDS Integers, Sequences, FiniteSets, TLC

VARIABLES ngo, campaign, donation, transaction, receipt,
          created_raised, resp, calls

vars == <<ngo, campaign, donation, transaction, receipt, created_raised, resp, calls>>

store == <<ngo, campaign, donation, transaction, receipt>>

\* ---------------------------------------------------------------- bounds
MaxNew == 1
MaxDonations == 2
MaxLimit == 2
NumProcs == 2

\* ------------------------------------------------------------ identifiers
Oid(c, k) == [coll |-> c, n |-> k]

\* str(oid): the canonical rendering of an ObjectId
oid_str(oid) == [form |-> "canon", oid |-> oid]

\* the same 24 hex digits written in upper case
UpperStr(oid) == [form |-> "upper", oid |-> oid]

\* a string that is no 24-digit hex string
Malformed == [form |-> "malformed", oid |-> Oid("none", 0)]

is_valid_NoCheck(s) == TRUE

\* ObjectId.is_valid(s)
is_valid(s) == s.form \in {"canon", "upper"}

\* ObjectId(s), for a well-formed s
ObjectId(s) == s.oid

\* ------------------------------------------------------------ store access
Range(f) == {f[i] : i \in DOMAIN f}

\* collection.find_one({"_id": oid}) finds a document
Found(coll, oid) == \E i \in DOMAIN coll : coll[i]._id = oid

\* collection.insert_one(doc): the store assigns the next identifier
NextId(coll, name) == Oid(name, Len(coll) + 1)

insert_one(coll, name, doc) == Append(coll, [doc EXCEPT !._id = NextId(coll, name)])

\* create_document(collection_name, entity): insert the entity's fields ...
create_document(coll, name, doc) == insert_one(coll, name, doc)

\* ... and return the newly assigned identifier as a string
create_document_id(coll, name) == oid_str(NextId(coll, name))

\* get_documents(collection_name, {}): every document, in storage order
get_documents(coll) == coll

RECURSIVE SumAmounts(_)
SumAmounts(ds) ==
    IF ds = <<>> THEN 0 ELSE Head(ds).amount_inr + SumAmounts(Tail(ds))

\* ---------------------------------------------------------------- schemas
\* NGO(...).model_dump()
NGO(name, registration_id, category) ==
    [_id |-> Oid("none", 0), name |-> name, registration_id |-> registration_id,
     category |-> category]

\* Campaign(...).model_dump(); raised_inr defaults to 0
Campaign(title, ngo_id, domain, goal_inr, raised_inr) ==
    [_id |-> Oid("none", 0), title |-> title, ngo_id |-> ngo_id, domain |-> domain,
     goal_inr |-> goal_inr, raised_inr |-> raised_inr]

\* Campaign's field constraints: goal_inr >= 1, raised_inr >= 0
CampaignValid(c) == c.goal_inr >= 1 /\ c.raised_inr >= 0

\* Donation's field constraint: amount_inr >= 1
DonationValid(amount_inr) == amount_inr >= 1

Donation(campaign_id, amount_inr) ==
    [_id |-> Oid("none", 0), campaign_id |-> campaign_id, amount_inr |-> amount_inr]

Idle == [pc |-> "idle", payload |-> <<>>, donation_id |-> <<>>, tx_hash |-> <<>>]

NoResp == [op |-> "none", status |-> 0, in |-> <<>>, out |-> <<>>]

Init ==
    /\ ngo = <<>>
    /\ campaign = <<>>
    /\ donation = <<>>
    /\ transaction = <<>>
    /\ receipt = <<>>
    /\ created_raised = <<>>
    /\ resp = NoResp
    /\ calls = [p \in 1..NumProcs |-> Idle]

\* ------------------------------------------------------------------- seed
SeedNgos ==
    << NGO("Aranya Eco Foundation", "KA-REG-001", "Air"),
       NGO("JalRaksha Trust", "KA-REG-002", "Water"),
       NGO("Nirmal Waste Collective", "KA-REG-003", "Waste") >>

SeedCampaigns(ngo_ids) ==
    << Campaign("Air: Urban Tree Plantation", oid_str(ngo_ids[1]), "Air", 500000, 0),
       Campaign("Water: Lake Restoration", oid_str(ngo_ids[2]), "Water", 800000, 0),
       Campaign("Waste: Smart Segregation", oid_str(ngo_ids[3]), "Waste", 300000, 0) >>

RECURSIVE insert_many(_, _, _)
insert_many(coll, name, docs) ==
    IF docs = <<>> THEN coll
    ELSE insert_many(insert_one(coll, name, Head(docs)), name, Tail(docs))

SeedGuard_Always(ngos) == TRUE

\* db["ngo"].count_documents({}) == 0
SeedGuard(ngos) == Len(ngos) = 0

Seed ==
    /\ IF SeedGuard(ngo)
       THEN LET ngos1 == insert_many(ngo, "ngo", SeedNgos)
                ngo_ids == [i \in 1..3 |-> ngos1[Len(ngo) + i]._id]
            IN /\ ngo' = ngos1
               /\ campaign' = insert_many(campaign, "campaign", SeedCampaigns(ngo_ids))
               /\ created_raised' = created_raised \o <<0, 0, 0>>
       ELSE UNCHANGED <<ngo, campaign, created_raised>>
    /\ resp' = [op |-> "seed", status |-> 200, in |-> <<>>, out |-> "ok"]
    /\ UNCHANGED <<donation, transaction, receipt, calls>>


\* ------------------------------------------------------------------ inputs
\* What callers send.  Identifier strings name the first or the last stored
\* document of the collection (in either spelling), an identifier the store has
\* not assigned yet, or are malformed.
FirstId(name) == Oid(name, 1)

LastId(coll, name) == Oid(name, Len(coll))

AbsentId(coll, name) == Oid(name, Len(coll) + 1)

\* bodies of POST /api/campaigns
CampaignInputs ==
    {Campaign("New campaign", oid_str(FirstId("ngo")), "Air", 1000, 0),
     Campaign("New campaign", UpperStr(LastId(ngo, "ngo")), "Air", 1000, 70),
     Campaign("New campaign", oid_str(AbsentId(ngo, "ngo")), "Air", 1000, 0),
     Campaign("New campaign", Malformed, "Air", 1000, 0),
     Campaign("New campaign", oid_str(FirstId("ngo")), "Air", 0, 0)}

\* bodies of POST /api/donations
DonationIn(campaign_id, amount_inr) == [campaign_id |-> campaign_id, amount_inr |-> amount_inr]

DonationInputs ==
    {DonationIn(oid_str(FirstId("campaign")), a) : a \in {0, 50, 100}}
    \cup {DonationIn(oid_str(LastId(campaign, "campaign")), 50),
          DonationIn(UpperStr(LastId(campaign, "campaign")), 100)}
    \cup {DonationIn(c, a) : c \in {oid_str(AbsentId(campaign, "campaign")), Malformed},
                             a \in {0, 50}}

LimitInputs == (0 - 1)..MaxLimit

Seeded == Len(ngo) > 0 /\ ngo[1].registration_id = "KA-REG-001"

NewNgos == Len(ngo) - (IF Seeded THEN 3 ELSE 0)

NewCampaigns == Cardinality({i \in DOMAIN campaign : campaign[i].title = "New campaign"})

\* ----------------------------------------------------------------- NGOs
CreateNgo ==
    /\ NewNgos < MaxNew
    /\ ngo' = create_document(ngo, "ngo", NGO("Green Earth", "REG-NEW", "Multi"))
    /\ resp' = [op |-> "create_ngo", status |-> 200, in |-> "Green Earth",
                out |-> [_id |-> create_document_id(ngo, "ngo")]]
    /\ UNCHANGED <<campaign, donation, transaction, receipt, created_raised, calls>>

\* -------------------------------------------------------------- campaigns
NgoExists_FormatOnly(ngos, ngo_id) == is_valid(ngo_id)

\* db["ngo"].find_one({"_id": ObjectId(c.ngo_id)}) if ObjectId.is_valid(c.ngo_id) else None
NgoExists(ngos, ngo_id) == is_valid(ngo_id) /\ Found(ngos, ObjectId(ngo_id))

create_campaign(c) ==
    IF ~CampaignValid(c)
    THEN /\ resp' = [op |-> "create_campaign", status |-> 422, in |-> c, out |-> "validation"]
         /\ UNCHANGED <<campaign, created_raised>>
    ELSE IF ~NgoExists(ngo, c.ngo_id)
    THEN /\ resp' = [op |-> "create_campaign", status |-> 400, in |-> c, out |-> "NGO not found"]
         /\ UNCHANGED <<campaign, created_raised>>
    ELSE /\ campaign' = create_document(campaign, "campaign", c)
         /\ created_raised' = Append(created_raised, c.raised_inr)
         /\ resp' = [op |-> "create_campaign", status |-> 200, in |-> c,
                     out |-> [_id |-> create_document_id(campaign, "campaign")]]

CreateCampaign ==
    /\ NewCampaigns < MaxNew
    /\ \E c \in CampaignInputs : create_campaign(c)
    /\ UNCHANGED <<ngo, donation, transaction, receipt, calls>>

\* -------------------------------------------------------------- donations
IncRaised_NoFilter(camps, oid, amt) ==
    [i \in DOMAIN camps |-> [camps[i] EXCEPT !.raised_inr = @ + amt]]

IncRaised_Set(camps, oid, amt) ==
    [i \in DOMAIN camps |->
        IF camps[i]._id = oid THEN [camps[i] EXCEPT !.raised_inr = amt] ELSE camps[i]]

\* db["campaign"].update_one({"_id": oid}, {"$inc": {"raised_inr": amt}})
IncRaised(camps, oid, amt) ==
    [i \in DOMAIN camps |->
        IF camps[i]._id = oid THEN [camps[i] EXCEPT !.raised_inr = @ + amt] ELSE camps[i]]

\* f"0x{ObjectId():x}"
NewTxHash(k) == [prefix |-> "0x", oid |-> Oid("local", k)]

Transaction_Pending(donation_id, tx_hash) ==
    [_id |-> Oid("none", 0), donation_id |-> donation_id, tx_hash |-> tx_hash,
     status |-> "Pending"]

\* Transaction(donation_id=donation_id, tx_hash=tx_hash, status="Settled")
Transaction(donation_id, tx_hash) ==
    [_id |-> Oid("none", 0), donation_id |-> donation_id, tx_hash |-> tx_hash,
     status |-> "Settled"]

\* Receipt(donation_id=donation_id, receipt_nft_id=f"nft-{donation_id}", ...)
Receipt(donation_id) ==
    [_id |-> Oid("none", 0), donation_id |-> donation_id,
     receipt_nft_id |-> [prefix |-> "nft-", id |-> donation_id]]

DonationResult(donation_id, tx_hash, receipt_id) ==
    [donation_id |-> donation_id, tx_hash |-> tx_hash, receipt_id |-> receipt_id,
     message |-> "Donation recorded with on-chain receipt"]

\* the checks of create_donation, in the order the handler makes them: the id's
\* form (400), the campaign lookup (404), then Donation(...), whose constraint
\* violation is raised inside the handler and is not handled (500)
donation_status(camps, payload) ==
    IF ~is_valid(payload.campaign_id) THEN 400
    ELSE IF ~Found(camps, ObjectId(payload.campaign_id)) THEN 404
    ELSE IF ~DonationValid(payload.amount_inr) THEN 500
    ELSE 200

ErrorDetail(status) ==
    CASE status = 400 -> "Invalid campaign id"
      [] status = 404 -> "Campaign not found"
      [] OTHER -> "Internal Server Error"

ErrorResp(status, payload) ==
    [op |-> "create_donation", status |-> status, in |-> payload,
     out |-> ErrorDetail(status)]

create_donation(payload) ==
    IF donation_status(campaign, payload) # 200
    THEN /\ resp' = ErrorResp(donation_status(campaign, payload), payload)
         /\ UNCHANGED <<campaign, donation, transaction, receipt>>
    ELSE LET donation_id == create_document_id(donation, "donation")
             tx_hash == NewTxHash(Len(transaction) + 1)
             receipt_id == create_document_id(receipt, "receipt")
         IN /\ donation' = create_document(donation, "donation",
                                      Donation(payload.campaign_id, payload.amount_inr))
            /\ campaign' = IncRaised(campaign, ObjectId(payload.campaign_id),
                                     payload.amount_inr)
            /\ transaction' = create_document(transaction, "transaction",
                                         Transaction(donation_id, tx_hash))
            /\ receipt' = create_document(receipt, "receipt", Receipt(donation_id))
            /\ resp' = [op |-> "create_donation", status |-> 200, in |-> payload,
                        out |-> DonationResult(donation_id, tx_hash, receipt_id)]

CreateDonation ==
    /\ Len(donation) < MaxDonations
    /\ \E payload \in DonationInputs : create_donation(payload)
    /\ UNCHANGED <<ngo, created_raised, calls>>


\* ----------------------------------------------------------------- joins
\* {str(x["_id"]): x for x in coll}: the mapping has the key / the value at it
HasKey(coll, key) == \E i \in DOMAIN coll : oid_str(coll[i]._id) = key

MapGet(coll, key) == CHOOSE d \in Range(coll) : oid_str(d._id) = key

\* a field the join leaves out of a row
Absent == "<absent>"

\* ----------------------------------------------------------------- ledger
Min2(a, b) == IF a < b THEN a ELSE b

Max2(a, b) == IF a > b THEN a ELSE b

\* Python's s[start:]
PySliceFrom(s, start) ==
    LET lo == IF start < 0 THEN Max2(Len(s) + start, 0) ELSE Min2(start, Len(s))
    IN SubSeq(s, lo + 1, Len(s))

\* Python's s[::-1]
Reversed(s) == [i \in 1..Len(s) |-> s[Len(s) + 1 - i]]

\* items[-limit:]
LastItems(items, limit) == PySliceFrom(items, 0 - limit)

\* one ledger row: the serialized transaction and what the joins resolve
LedgerRow(it) ==
    LET hasD == HasKey(donation, it.donation_id)
        d == MapGet(donation, it.donation_id)
        hasC == hasD /\ HasKey(campaign, d.campaign_id)
        camp == MapGet(campaign, d.campaign_id)
        hasN == hasC /\ HasKey(ngo, camp.ngo_id)
    IN [_id |-> oid_str(it._id), donation_id |-> it.donation_id, tx_hash |-> it.tx_hash,
        status |-> it.status,
        amount_inr |-> IF hasD THEN d.amount_inr ELSE Absent,
        campaign_title |-> IF hasC THEN camp.title ELSE Absent,
        domain |-> IF hasC THEN camp.domain ELSE Absent,
        ngo_name |-> IF hasN THEN MapGet(ngo, camp.ngo_id).name ELSE Absent]

list_transactions(limit) ==
    LET items == LastItems(get_documents(transaction), limit)
        newest == Reversed(items)
    IN [i \in 1..Len(newest) |-> LedgerRow(newest[i])]

ListTransactions ==
    /\ \E limit \in LimitInputs :
          resp' = [op |-> "list_transactions", status |-> 200, in |-> limit,
                   out |-> list_transactions(limit)]
    /\ UNCHANGED <<ngo, campaign, donation, transaction, receipt, created_raised, calls>>

\* ------------------------------------------------------------ leaderboard
RECURSIVE SetSum(_, _)
SetSum(S, f) ==
    IF S = {} THEN 0
    ELSE LET x == CHOOSE y \in S : TRUE IN f[x] + SetSum(S \ {x}, f)

\* {"$group": {"_id": "$campaign_id", "raised": {"$sum": "$amount_inr"}}}
GroupKeys(dons) == {dons[i].campaign_id : i \in DOMAIN dons}

GroupSum(dons, k) == SumAmounts(SelectSeq(dons, LAMBDA d : d.campaign_id = k))

\* int(row["raised"]) // 100
EcoPoints(raised) == raised \div 100

ngo_points_Earning(dons, camps) ==
    LET hits == {k \in GroupKeys(dons) : HasKey(camps, k) /\ EcoPoints(GroupSum(dons, k)) > 0}
        keys == {MapGet(camps, k).ngo_id : k \in hits}
        pts == [k \in hits |-> EcoPoints(GroupSum(dons, k))]
    IN [nid \in keys |-> SetSum({k \in hits : MapGet(camps, k).ngo_id = nid}, pts)]

\* the accumulation mapping: ngo_id string -> points summed over the groups
\* whose key is the rendered id of a campaign with that ngo_id
ngo_points(dons, camps) ==
    LET hits == {k \in GroupKeys(dons) : HasKey(camps, k)}
        keys == {MapGet(camps, k).ngo_id : k \in hits}
        pts == [k \in hits |-> EcoPoints(GroupSum(dons, k))]
    IN [nid \in keys |-> SetSum({k \in hits : MapGet(camps, k).ngo_id = nid}, pts)]

\* ngos.get(ngo_id, {}).get("name", "Unknown NGO")
EntityName(ngos, ngo_id) ==
    IF HasKey(ngos, ngo_id) THEN MapGet(ngos, ngo_id).name ELSE "Unknown NGO"

\* sorted(ngo_points.items(), key=points, reverse=True): the iteration order of
\* the mapping follows the store's group order, which is unspecified, so any
\* order of the keys with non-increasing points can come out
LeaderOrders(points) ==
    LET K == DOMAIN points
        n == Cardinality(K)
    IN {f \in [1..n -> K] :
           /\ \A i, j \in 1..n : i # j => f[i] # f[j]
           /\ \A i \in 1..n : \A j \in 1..n : i < j => points[f[i]] >= points[f[j]]}

Leaderboard ==
    /\ LET points == ngo_points(donation, campaign)
       IN \E order \in LeaderOrders(points) :
             resp' = [op |-> "leaderboard", status |-> 200, in |-> <<>>,
                      out |-> [i \in DOMAIN order |->
                                  [entity |-> EntityName(ngo, order[i]),
                                   eco_points |-> points[order[i]]]]]
    /\ UNCHANGED <<ngo, campaign, donation, transaction, receipt, created_raised, calls>>

\* --------------------------------------------------------- specification
Next ==
    \/ Seed
    \/ CreateNgo
    \/ CreateCampaign
    \/ CreateDonation
    \/ ListTransactions
    \/ Leaderboard

Spec == Init /\ [][Next]_vars


\* ------------------------------------------- create_donation, step by step
\* The same handler as a sequence of store operations, one action each, for
\* calls served concurrently: the checks (lines 145-156), the donation insert
\* (157), the increment (160-163), the transaction insert (166-168), the
\* receipt insert and the return (171-179).  A call may stop between two steps.
Procs == 1..NumProcs

\* what concurrent callers send: the first and the last campaign's id, the
\* first one's other spelling, and a malformed string
ConcIdInputs ==
    {oid_str(campaign[1]._id), UpperStr(campaign[1]._id),
     oid_str(campaign[Len(campaign)]._id), Malformed}

ConcAmountInputs == {50, 100}

InFlight == {p \in Procs : calls[p].pc \notin {"idle", "stopped"}}

\* calls accepted so far: their donations are stored or about to be
Started == Len(donation) + Cardinality({p \in Procs : calls[p].pc = "validated"})

DStart(p) ==
    /\ calls[p].pc = "idle"
    /\ Started < MaxDonations
    /\ \E cid \in ConcIdInputs, a \in ConcAmountInputs :
          LET payload == DonationIn(cid, a)
              st == donation_status(campaign, payload)
          IN IF st # 200
             THEN /\ resp' = ErrorResp(st, payload)
                  /\ UNCHANGED calls
             ELSE /\ calls' = [calls EXCEPT ![p] = [Idle EXCEPT !.pc = "validated",
                                                                 !.payload = payload]]
                  /\ UNCHANGED resp
    /\ UNCHANGED <<ngo, campaign, donation, transaction, receipt, created_raised>>

DInsert(p) ==
    /\ calls[p].pc = "validated"
    /\ donation' = create_document(donation, "donation",
                              Donation(calls[p].payload.campaign_id,
                                       calls[p].payload.amount_inr))
    /\ calls' = [calls EXCEPT ![p].pc = "inserted",
                              ![p].donation_id = create_document_id(donation, "donation")]
    /\ UNCHANGED <<ngo, campaign, transaction, receipt, created_raised, resp>>

DInc(p) ==
    /\ calls[p].pc = "inserted"
    /\ campaign' = IncRaised(campaign, ObjectId(calls[p].payload.campaign_id),
                             calls[p].payload.amount_inr)
    /\ calls' = [calls EXCEPT ![p].pc = "incremented"]
    /\ UNCHANGED <<ngo, donation, transaction, receipt, created_raised, resp>>

DTx(p) ==
    /\ calls[p].pc = "incremented"
    /\ LET tx_hash == NewTxHash(Len(transaction) + 1)
       IN /\ transaction' = create_document(transaction, "transaction",
                                       Transaction(calls[p].donation_id, tx_hash))
          /\ calls' = [calls EXCEPT ![p].pc = "settled", ![p].tx_hash = tx_hash]
    /\ UNCHANGED <<ngo, campaign, donation, receipt, created_raised, resp>>

DReceipt(p) ==
    /\ calls[p].pc = "settled"
    /\ receipt' = create_document(receipt, "receipt", Receipt(calls[p].donation_id))
    /\ resp' = [op |-> "create_donation", status |-> 200, in |-> calls[p].payload,
                out |-> DonationResult(calls[p].donation_id, calls[p].tx_hash,
                                       create_document_id(receipt, "receipt"))]
    /\ calls' = [calls EXCEPT ![p] = Idle]
    /\ UNCHANGED <<ngo, campaign, donation, transaction, created_raised>>

\* the process serving the call fails between two steps
DStop(p) ==
    /\ p \in InFlight
    /\ calls' = [calls EXCEPT ![p] = [Idle EXCEPT !.pc = "stopped"]]
    /\ UNCHANGED <<ngo, campaign, donation, transaction, receipt, created_raised, resp>>

\* the store after one seed call on the empty store and one create_campaign
\* call for the first seeded NGO with raised_inr = 70
InitConc ==
    /\ ngo = insert_many(<<>>, "ngo", SeedNgos)
    /\ campaign = create_document(insert_many(<<>>, "campaign",
                                         SeedCampaigns([i \in 1..3 |-> Oid("ngo", i)])),
                             "campaign",
                             Campaign("New campaign", oid_str(Oid("ngo", 1)), "Air", 1000, 70))
    /\ donation = <<>>
    /\ transaction = <<>>
    /\ receipt = <<>>
    /\ created_raised = <<0, 0, 0, 70>>
    /\ resp = NoResp
    /\ calls = [p \in Procs |-> Idle]

NextConc ==
    \/ \E p \in Procs : DStart(p)
    \/ \E p \in Procs : DInsert(p)
    \/ \E p \in Procs : DInc(p)
    \/ \E p \in Procs : DTx(p)
    \/ \E p \in Procs : DReceipt(p)
    \/ \E p \in Procs : DStop(p)

SpecConc == InitConc /\ [][NextConc]_vars

\* ================================================================ claims
\* What the claims speak of, stated on the stored data alone.
WellFormed(s) == s.form # "malformed"

\* the identifier string s names a document of coll
Names(s, coll) == WellFormed(s) /\ \E i \in DOMAIN coll : coll[i]._id = s.oid

IsPrefix(s, t) == Len(s) <= Len(t) /\ SubSeq(t, 1, Len(s)) = s

\* the sum of amount_inr over the stored donations made to the campaign oid
DonatedTo(oid) == SumAmounts(SelectSeq(donation, LAMBDA d : d.campaign_id.oid = oid))

\* what a step that answers a valid create_donation call does to the campaigns
C1_Step ==
    (/\ resp'.op = "create_donation"
     /\ Names(resp'.in.campaign_id, campaign)
     /\ resp'.in.amount_inr >= 1)
    => /\ resp'.status = 200
       /\ DOMAIN campaign' = DOMAIN campaign
       /\ \A i \in DOMAIN campaign :
             campaign'[i].raised_inr =
                campaign[i].raised_inr
                + (IF campaign[i]._id = resp'.in.campaign_id.oid
                   THEN resp'.in.amount_inr ELSE 0)

\* C1: a create_donation call with a well-formed campaign_id that names a stored
\* campaign and amount_inr >= 1 succeeds, adds amount_inr to that campaign's
\* raised_inr and leaves every other campaign's raised_inr as it was.
C1_DonationAddsToRaised == [][C1_Step]_vars

\* a second donation to the first campaign has succeeded: 50 and 100 add up
\* to 150 there, and another campaign still has nothing
C1_Witness ==
    /\ resp.op = "create_donation" /\ resp.status = 200
    /\ Len(donation) = 2
    /\ \E i, j \in DOMAIN campaign :
          campaign[i].raised_inr = 150 /\ campaign[j].raised_inr = 0

\* what a step that answers a create_donation call with a bad campaign_id does
C2_Step ==
    (resp'.op = "create_donation" /\ ~Names(resp'.in.campaign_id, campaign))
    => /\ resp'.status = (IF WellFormed(resp'.in.campaign_id) THEN 404 ELSE 400)
       /\ UNCHANGED <<donation, transaction, receipt, campaign>>

\* C2: a create_donation call whose campaign_id is malformed fails with 400, one
\* whose campaign_id is well-formed but names no stored campaign fails with 404,
\* and either leaves the donation, transaction, receipt and campaign
\* collections exactly as they were.
C2_BadCampaignRejected == [][C2_Step]_vars

\* a malformed campaign_id has been refused while donations are stored
C2_Witness ==
    /\ resp.op = "create_donation" /\ resp.status = 400
    /\ ~WellFormed(resp.in.campaign_id)
    /\ Len(donation) > 0 /\ Len(campaign) > 0

\* what a step that answers a create_donation call with success appends
C3_Step ==
    (resp'.op = "create_donation" /\ resp'.status = 200)
    => /\ Len(donation') = Len(donation) + 1 /\ IsPrefix(donation, donation')
       /\ Len(transaction') = Len(transaction) + 1 /\ IsPrefix(transaction, transaction')
       /\ Len(receipt') = Len(receipt) + 1 /\ IsPrefix(receipt, receipt')
       /\ LET d == donation'[Len(donation')]
              t == transaction'[Len(transaction')]
              r == receipt'[Len(receipt')]
          IN /\ resp'.out.donation_id = [form |-> "canon", oid |-> d._id]
             /\ t.donation_id = resp'.out.donation_id
             /\ r.donation_id = resp'.out.donation_id
             /\ t.status = "Settled"
             /\ t.tx_hash = resp'.out.tx_hash

C3_OneToOne ==
    \A i \in DOMAIN donation :
       LET id == [form |-> "canon", oid |-> donation[i]._id]
       IN /\ Cardinality({j \in DOMAIN transaction : transaction[j].donation_id = id}) = 1
          /\ Cardinality({j \in DOMAIN receipt : receipt[j].donation_id = id}) = 1

\* C3: a create_donation call that returns successfully appends exactly one
\* Donation, one Transaction and one Receipt; the Transaction and the Receipt
\* carry the returned donation_id, which is the new Donation's identifier; the
\* Transaction is "Settled" and carries the returned tx_hash.  Hence every
\* stored Donation has exactly one Transaction and one Receipt referencing it.
C3_DonationTriple == [][C3_Step]_vars /\ []C3_OneToOne

\* the second successful donation has been recorded with its pair of records
C3_Witness ==
    /\ resp.op = "create_donation" /\ resp.status = 200
    /\ Len(donation) = 2 /\ Len(transaction) = 2 /\ Len(receipt) = 2

\* the NGO n owns the campaign c / the donations made to n's campaigns
Owns(n, c) == c.ngo_id.oid = n._id

TotalFor(n) ==
    SumAmounts(SelectSeq(donation,
        LAMBDA d : \E i \in DOMAIN campaign :
                      campaign[i]._id = d.campaign_id.oid /\ Owns(n, campaign[i])))

\* the rows of a leaderboard response that show the NGO n
RowsFor(n) == {i \in DOMAIN resp.out : resp.out[i].entity = n.name}

UniqueName(n) == \A i \in DOMAIN ngo : ngo[i].name = n.name => ngo[i] = n

\* every stored reference is written the way the store renders identifiers
AllCanonical ==
    /\ \A i \in DOMAIN campaign : campaign[i].ngo_id.form = "canon"
    /\ \A i \in DOMAIN donation : donation[i].campaign_id.form = "canon"

\* C4: the leaderboard's eco_points for an NGO equals floor(S / 100), S being
\* the sum of amount_inr over all donations to all campaigns of that NGO, summed
\* across its campaigns before dividing; an NGO without donations has no row.
\* (Stated for stores in which every reference is in canonical spelling.)
C4_PointsAreFloorOfTotal ==
    (resp.op = "leaderboard" /\ AllCanonical)
    => \A k \in DOMAIN ngo :
          UniqueName(ngo[k]) =>
             /\ TotalFor(ngo[k]) = 0 => RowsFor(ngo[k]) = {}
             /\ \A i \in RowsFor(ngo[k]) :
                   resp.out[i].eco_points = TotalFor(ngo[k]) \div 100
             /\ TotalFor(ngo[k]) \div 100 >= 1 => RowsFor(ngo[k]) # {}

\* the ngo_id values of the campaigns that have a stored donation recorded
\* under their rendered identifier
DonatedKeys ==
    {campaign[i].ngo_id : i \in {i \in DOMAIN campaign :
        \E j \in DOMAIN donation :
           donation[j].campaign_id = [form |-> "canon", oid |-> campaign[i]._id]}}

\* the store holds one donation, of 50, recorded under the rendered id of a
\* campaign whose ngo_id is the rendered id of a stored NGO
Single50 ==
    /\ Len(donation) = 1
    /\ donation[1].amount_inr = 50
    /\ donation[1].campaign_id.form = "canon"
    /\ \E i \in DOMAIN campaign :
          /\ campaign[i]._id = donation[1].campaign_id.oid
          /\ campaign[i].ngo_id.form = "canon"

\* the NGO that owns the campaign of the first donation
Single50Ngo ==
    CHOOSE n \in Range(ngo) : \E i \in DOMAIN campaign :
        campaign[i]._id = donation[1].campaign_id.oid /\ Owns(n, campaign[i])

\* C5 as stated: the leaderboard never emits a row with eco_points = 0; after a
\* single 50 INR donation the NGO has no row.
C5_NoZeroRow ==
    resp.op = "leaderboard" => \A i \in DOMAIN resp.out : resp.out[i].eco_points # 0

\* C5 as amended: the leaderboard has one row per ngo_id value of the campaigns
\* with a stored donation recorded under their rendered id, whether or not
\* points were earned; after a single 50 INR donation the only row is that
\* NGO's, with eco_points = 0.
C5_RowPerDonatedNgo ==
    resp.op = "leaderboard"
    => /\ Len(resp.out) = Cardinality(DonatedKeys)
       /\ Single50 =>
             resp.out = << [entity |-> Single50Ngo.name, eco_points |-> 0] >>

\* the leaderboard was read after a single 50 INR donation and shows one row,
\* with no points
C5_Witness ==
    /\ resp.op = "leaderboard"
    /\ Single50
    /\ Len(resp.out) = 1 /\ resp.out[1].eco_points = 0

\* C6: for every limit N >= 0, N = 0 included, list_transactions(limit=N)
\* returns at most N rows: the last min(N, count) transactions in insertion
\* order, newest first.
C6_AtMostLimitNewestFirst ==
    (resp.op = "list_transactions" /\ resp.in >= 0)
    => LET n == IF resp.in < Len(transaction) THEN resp.in ELSE Len(transaction)
       IN /\ Len(resp.out) <= resp.in
          /\ Len(resp.out) = n
          /\ \A i \in 1..Len(resp.out) :
                i <= Len(transaction) =>
                   resp.out[i]._id =
                      [form |-> "canon", oid |-> transaction[Len(transaction) + 1 - i]._id]

\* C7: a donation request with amount_inr < 1 is rejected with a caller-visible
\* 4xx-class validation error.
C7_LowAmountIs4xx ==
    (resp.op = "create_donation" /\ resp.in.amount_inr < 1)
    => resp.status \in 400..499

\* every stored reference names a stored document
C8_NoDangling ==
    /\ \A i \in DOMAIN campaign : Names(campaign[i].ngo_id, ngo)
    /\ \A i \in DOMAIN donation : Names(donation[i].campaign_id, campaign)

C8_Step ==
    (/\ resp'.op = "create_campaign"
     /\ resp'.in.goal_inr >= 1 /\ resp'.in.raised_inr >= 0
     /\ ~Names(resp'.in.ngo_id, ngo))
    => resp'.status = 400 /\ campaign' = campaign

\* C8: no reference dangles: every stored Campaign's ngo_id names a stored NGO and
\* every stored Donation's campaign_id names a stored Campaign; a create_campaign
\* call whose ngo_id is malformed or names no NGO fails with 400 and inserts
\* no campaign.  (A string names a document when it parses to the document's
\* _id; it need not be spelled the way the store renders that identifier.)
C8_ReferencesResolve == []C8_NoDangling /\ [][C8_Step]_vars

\* a campaign created through the endpoint and two donations are stored
C8_Witness ==
    /\ \E i \in DOMAIN campaign : campaign[i].title = "New campaign"
    /\ Len(donation) = 2
    /\ \E i \in DOMAIN donation : donation[i].campaign_id.oid = campaign[Len(campaign)]._id

\* what a step that answers a seed call does
C9_Step ==
    resp'.op = "seed"
    => IF Len(ngo) > 0
       THEN store' = store
       ELSE /\ Len(ngo') = 3 /\ Len(campaign') = 3
            /\ [i \in 1..3 |-> campaign'[i].goal_inr] = <<500000, 800000, 300000>>
            /\ \A i \in 1..3 :
                  /\ campaign'[i].raised_inr = 0
                  /\ campaign'[i].ngo_id = [form |-> "canon", oid |-> ngo'[i]._id]
            /\ \A i, j \in 1..3 : i # j => ngo'[i]._id # ngo'[j]._id
            /\ UNCHANGED <<donation, transaction, receipt>>

\* C9: seed with a non-empty ngo collection changes no collection; seed on the
\* empty store inserts exactly 3 NGOs and 3 campaigns, with goals 500000,
\* 800000, 300000 and raised_inr 0, the i-th campaign owned by the i-th seeded
\* NGO; so repeated seed calls leave what one call leaves.
C9_SeedIdempotentIfEmpty == [][C9_Step]_vars

\* seed has answered again after a donation, and the store still holds just
\* the three seeded NGOs and campaigns
C9_Witness ==
    /\ resp.op = "seed"
    /\ Len(ngo) = 3 /\ Len(campaign) = 3
    /\ ngo[1].name = "Aranya Eco Foundation"
    /\ Len(donation) = 1

\* no create_donation call is under way and none has stopped
Quiescent == \A p \in Procs : calls[p].pc = "idle"

C10_Bounded ==
    \A i \in DOMAIN campaign :
       /\ campaign[i].raised_inr <= created_raised[i] + DonatedTo(campaign[i]._id)
       /\ Quiescent =>
             campaign[i].raised_inr = created_raised[i] + DonatedTo(campaign[i]._id)

C10_NonDecreasing ==
    \A i \in DOMAIN campaign : campaign'[i].raised_inr >= campaign[i].raised_inr

\* C10: with the store operations of concurrent create_donation calls
\* interleaved in any order, and calls stopping between steps, a campaign's
\* raised_inr never decreases and never exceeds its creation-time value plus
\* the stored donations made to it; when no call is under way and none has
\* stopped, it equals that sum.
C10_NoLostIncrement == []C10_Bounded /\ [][C10_NonDecreasing]_vars

\* two calls for the same campaign overlapped (the second donation's transaction
\* was stored before the first's) and both have completed
C10_Witness ==
    /\ Quiescent
    /\ Len(donation) = 2 /\ Len(transaction) = 2 /\ Len(receipt) = 2
    /\ donation[1].campaign_id.oid = donation[2].campaign_id.oid
    /\ transaction[1].donation_id = [form |-> "canon", oid |-> donation[2]._id]

====
